---- MODULE Spec2Model ----
(***************************************************************************)
(* Model of the concurrent geocoding orchestration engine of               *)
(* address-geocoder.  Two revisions of the code live side by side:         *)
(*   "new": utils/orchestrator.py            with utils/geocoder.py        *)
(*   "old": utils/geocoding_orchestrator.py  with utils/address_geocoder.py*)
(* A run of execute_geocoding_workflow is a main thread (fetch, submit,    *)
(* collect in completion order, flush chunks, summary) next to one         *)
(* _perform_geocoding task per input record on a bounded worker pool.      *)
(***************************************************************************)
EXTENDS Integers, Sequences, FiniteSets, TLC

(* ------------------------------ bounds -------------------------------- *)
MaxRecords == 2
MaxChunksize == 2
MaxRetryNo == 2
MaxWorkers == 2

(* ------------------------------ state --------------------------------- *)
VARIABLES
    revision,         \* which pair of source files runs
    records,          \* number of input records m; record i is (Ids[i], Addresses[i])
    config,           \* InputDataProcessorConfig: max_workers, chunksize, retry_delay, max_retry_no
    iris_geocoding,   \* the enrichment flag
    pc,               \* where execute_geocoding_workflow is
    submitted,        \* records 1..submitted have a future
    tstate,           \* per record: its _perform_geocoding task
    attempt,          \* per task: the loop variable of _perform_geocoding
    retry_delay,      \* per task: the local retry_delay
    result,           \* per task: what the future holds once done
    collected,        \* futures as_completed has yielded
    output,           \* the buffer of collected rows
    total_success, total_failed, total_chunks,
    file,             \* the processed CSV file: header and row lines
    file_exists,
    flushes,          \* the process_output calls made: chunk_no, size, raised
    raised,           \* the exception that left execute_geocoding_workflow ("" if none)
    summary,          \* the GeocodingOrchestratorResult returned
    probe             \* one direct call of geocode_address: its inputs and its result

(* ------------------------- program constants -------------------------- *)
\* RETRY_DELAY when the environment does not set it
DefaultRetryDelay == 600

\* the Geocoder enum: Nominatim, Photon, OpenCage, tried in this order
Geocoder == <<"Nominatim", "Photon", "OpenCage">>
NumProviders == Len(Geocoder)

\* ids of the input records (unique within a run); record i carries Ids[i]
Ids == <<"a", "b", "c", "d">>

\* Python's None
None == "<None>"

\* what one rate-limited provider call does: returns a location, returns
\* nothing, or raises (authentication failure, timeout, other service error)
\* "malformed" is a location whose latitude or longitude does not parse as a
\* number: float() raises while the match is formatted, inside the chain's try
Responses == {"match", "none", "auth", "timeout", "error", "malformed"}
Raising == {"auth", "timeout", "error", "malformed"}

Revisions == {"new", "old"}

(* ------------------------------- dicts -------------------------------- *)
EmptyDict == [key \in {} |-> ""]

\* {**f, **g}
Merge(f, g) == g @@ f

Range(s) == {s[j] : j \in DOMAIN s}

Min(S) == CHOOSE x \in S : \A y \in S : x <= y

Digits == <<"0", "1", "2", "3", "4", "5", "6", "7", "8", "9">>

\* str(n) of a non-negative int
RECURSIVE Str(_)
Str(n) == IF n < 10 THEN Digits[n + 1] ELSE Str(n \div 10) \o Digits[(n % 10) + 1]

(* ------------------- response formatting (AddressResolver) ------------ *)
\* GeocodingSchema.Output: the eleven standardized location fields
OutputFields ==
    {"street_number", "street_name", "postal_code", "city", "admin_level_1",
     "admin_level_2", "country", "latitude", "longitude", "location_type",
     "address_type"}

ApplyFormatSparse(gs, address) ==
    [raw_address |-> address, encoder |-> Geocoder[gs]]

\* apply_format: every Output field (missing ones as ""), the raw address and
\* the name of the geocoder that matched
ApplyFormat(gs, address) ==
    Merge([key \in OutputFields |->
              IF key \in {"latitude", "longitude"} THEN "1.5" ELSE ""],
          [raw_address |-> address, encoder |-> Geocoder[gs]])

\* _format_result: location is truthy on this path
FormatResult(gs, address) == ApplyFormat(gs, address)

\* str(e) of what provider gs raised
ErrorMessage(gs, kind) == Geocoder[gs] \o ": " \o kind

(* ----------------- ProviderChain: geocode_address --------------------- *)
\* f"{i}/{max_attempts}"
AttemptLabel(i, max_attempts) == Str(i) \o "/" \o Str(max_attempts)

CaughtErrorDropped(error, message) == error

CaughtErrorFirst(error, message) == IF error = None THEN message ELSE error

CaughtErrorAppended(error, message) ==
    IF error = None THEN message ELSE error \o "; " \o message

\* geocoder.py `except Exception as e: error = str(e)`: the new value of error
CaughtError(error, message) == message

\* geocoder.py: the for loop from provider i on; `error` is the last message
\* caught so far, `called` the providers called so far in this invocation
RECURSIVE ChainNewFrom(_, _, _, _, _)
ChainNewFrom(resp, address, i, error, called) ==
    IF i > NumProviders
    THEN [attempt |-> AttemptLabel(NumProviders, NumProviders),
          status |-> "failed", error |-> error, location |-> EmptyDict,
          has_location |-> FALSE, geocoder |-> None, called |-> called,
          queried |-> address]
    ELSE IF resp[i] = "match"
         THEN [attempt |-> AttemptLabel(i, NumProviders),
               status |-> "success", error |-> None,
               location |-> FormatResult(i, address), has_location |-> TRUE,
               geocoder |-> Geocoder[i], called |-> Append(called, i),
               queried |-> address]
         ELSE IF resp[i] = "none"
              THEN ChainNewFrom(resp, address, i + 1, error, Append(called, i))
              ELSE ChainNewFrom(resp, address, i + 1,
                                CaughtError(error, ErrorMessage(i, resp[i])),
                                Append(called, i))

InitialErrorKept ==
    IF "history" \in DOMAIN probe /\ probe.history /= <<>>
    THEN probe.history[Len(probe.history)].result.error
    ELSE None

\* geocoder.py `error = None` before the loop
InitialError == None

GeocodeAddressNewFromSecond(resp, address) ==
    ChainNewFrom(resp, address, 2, InitialError, <<>>)

\* geocoder.py geocode_address: an AddressGeocodingResult
GeocodeAddressNew(resp, address) ==
    ChainNewFrom(resp, address, 1, InitialError, <<>>)

\* address_geocoder.py: the for loop from provider gc on, with the running
\* `attempt` counter; returns a tuple (attempt, error, location) or None
RECURSIVE ChainOldFrom(_, _, _, _, _)
ChainOldFrom(resp, address, gc, attempt_no, called) ==
    IF gc > NumProviders
    THEN [is_tuple |-> FALSE, attempt |-> AttemptLabel(attempt_no, NumProviders),
          error |-> None, location |-> EmptyDict, has_location |-> FALSE,
          called |-> called, queried |-> address]
    ELSE IF resp[gc] = "match"
    THEN [is_tuple |-> TRUE, attempt |-> AttemptLabel(attempt_no, NumProviders),
          error |-> None, location |-> FormatResult(gc, address),
          has_location |-> TRUE, called |-> Append(called, gc),
          queried |-> address]
    ELSE IF resp[gc] = "none"
    THEN \* `attempt += 1` in the else branch, then again at the end of the
         \* loop body
         ChainOldFrom(resp, address, gc + 1, (attempt_no + 1) + 1, Append(called, gc))
    ELSE [is_tuple |-> TRUE, attempt |-> AttemptLabel(attempt_no, NumProviders),
          error |-> (IF resp[gc] = "auth" THEN "Authentication failed : "
                     ELSE IF resp[gc] = "timeout" THEN "Timeout occurred : "
                     ELSE "Unexpected error occured : ")
                    \o ErrorMessage(gc, resp[gc]),
          location |-> EmptyDict, has_location |-> FALSE,
          called |-> Append(called, gc), queried |-> address]

GeocodeAddressOld(resp, address) == ChainOldFrom(resp, address, 1, 1, <<>>)

(* ------------------------------ input --------------------------------- *)
\* max_address_length of GeocodingOrchestrator.__init__
MaxAddressLength == 75

\* raw addresses as character sequences; the second one is longer than
\* MaxAddressLength
LongAddress == [j \in 1..(MaxAddressLength + 2) |-> j]
Addresses == <<<<1, 2, 3>>, LongAddress, <<4>>, <<5, 6>>>>

TruncateNot(address) == address

\* address[: self.max_address_length]
Truncate(address) ==
    SubSeq(address, 1, IF Len(address) < MaxAddressLength THEN Len(address)
                       ELSE MaxAddressLength)

(* --------------- AddressResolver: _geocode_input_row ------------------ *)
\* orchestrator.py: one chain invocation turned into an output row.
\* `crash` is an exception raised outside the chain's try block (slicing a
\* non-string address, looking the provider up), which leaves the method.
GeocodeInputRowNewStrict(id, address, resp, crash) ==
    LET geocoding_result == GeocodeAddressNew(resp, Truncate(address))
        key == [id |-> id]
    IN  IF crash \/ geocoding_result.error /= None
        THEN [raised |-> TRUE, row |-> EmptyDict,
              called |-> IF crash THEN <<>> ELSE geocoding_result.called,
              queried |-> IF crash THEN <<>> ELSE geocoding_result.queried]
        ELSE IF geocoding_result.status = "success"
             THEN [raised |-> FALSE,
                   row |-> Merge(key, Merge(geocoding_result.location,
                                            [is_encoded |-> "True"])),
                   called |-> geocoding_result.called,
                   queried |-> geocoding_result.queried]
             ELSE [raised |-> FALSE,
                   row |-> Merge(key, [is_encoded |-> "False"]),
                   called |-> geocoding_result.called,
                   queried |-> geocoding_result.queried]

GeocodeInputRowNewPartial(id, address, resp, crash) ==
    LET geocoding_result == GeocodeAddressNew(resp, Truncate(address))
        key == [id |-> id]
    IN  IF crash
        THEN [raised |-> TRUE, row |-> EmptyDict, called |-> <<>>,
              queried |-> <<>>]
        ELSE [raised |-> FALSE,
              row |-> Merge(key, Merge([raw_address |-> Truncate(address)],
                                       [is_encoded |->
                                          IF geocoding_result.status = "success"
                                          THEN "True" ELSE "False"])),
              called |-> geocoding_result.called,
              queried |-> geocoding_result.queried]

GeocodeInputRowNew(id, address, resp, crash) ==
    LET geocoding_result == GeocodeAddressNew(resp, Truncate(address))
        key == [id |-> id]
    IN  IF crash
        THEN [raised |-> TRUE, row |-> EmptyDict, called |-> <<>>,
              queried |-> <<>>]
        ELSE IF geocoding_result.status = "success"
             THEN [raised |-> FALSE,
                   row |-> Merge(key, Merge(geocoding_result.location,
                                            [is_encoded |-> "True"])),
                   called |-> geocoding_result.called,
                   queried |-> geocoding_result.queried]
             ELSE [raised |-> FALSE,
                   row |-> Merge(key, [is_encoded |-> "False"]),
                   called |-> geocoding_result.called,
                   queried |-> geocoding_result.queried]

\* geocoding_orchestrator.py: the chain's return value is unpacked into three
\* names, which raises TypeError when the chain returned None
GeocodeInputRowOld(id, address, resp, crash) ==
    LET ret == GeocodeAddressOld(resp, Truncate(address))
        key == [id |-> id]
    IN  IF crash
        THEN [raised |-> TRUE, row |-> EmptyDict, called |-> <<>>,
              queried |-> <<>>]
        ELSE IF ~ret.is_tuple
             THEN [raised |-> TRUE, row |-> EmptyDict, called |-> ret.called,
                   queried |-> ret.queried]
             ELSE IF ret.has_location
                  THEN [raised |-> FALSE,
                        row |-> Merge(key, Merge(ret.location, [is_encoded |-> "True"])),
                        called |-> ret.called, queried |-> ret.queried]
                  ELSE [raised |-> FALSE,
                        row |-> Merge(key, [is_encoded |-> "False"]),
                        called |-> ret.called, queried |-> ret.queried]

GeocodeInputRow(rev, id, address, resp, crash) ==
    IF rev = "new" THEN GeocodeInputRowNew(id, address, resp, crash)
    ELSE GeocodeInputRowOld(id, address, resp, crash)

(* ----------------- GeocodingProcessor: process_output ----------------- *)
\* pandas' missing value
NA == "<NA>"

NumericColumns == {"latitude", "longitude"}
NumericValues == {"0", "1.5"}

\* IrisGeoSchema values: the columns RegionEnricher attaches
IrisColumns ==
    {"iris_code", "municipality_code", "municipality_name", "iris", "iris_name",
     "iris_type"}

\* pd.DataFrame(output).fillna(pd.NA): the columns are the union of the rows'
\* keys, a row has NA where it lacks the key
ToDataFrame(chunk) ==
    LET columns == UNION {DOMAIN chunk[j] : j \in DOMAIN chunk}
    IN  [columns |-> columns,
         rows |-> [j \in DOMAIN chunk |->
                     [c \in columns |->
                        IF c \in DOMAIN chunk[j] THEN chunk[j][c] ELSE NA]]]

ConvertToNumericNone(df) == df

\* convert_to_numeric: pd.to_numeric(errors="coerce") then fillna 0, on the
\* numeric columns the frame has
ConvertToNumeric(df) ==
    [df EXCEPT !.rows =
        [j \in DOMAIN df.rows |->
            [c \in df.columns |->
                IF c \in NumericColumns /\ df.rows[j][c] \notin NumericValues
                THEN "0" ELSE df.rows[j][c]]]]

ConvertToDataframeAndFormat(chunk) == ConvertToNumeric(ToDataFrame(chunk))

\* IRISGeocoder._create_geometries raises ValueError on a frame without both
\* coordinate columns
CreateGeometriesRaises(df) ==
    "latitude" \notin df.columns \/ "longitude" \notin df.columns

\* perform_iris_geocoding on a frame that has the coordinate columns: the
\* region attributes are attached (the spatial join itself is a black box)
PerformIrisGeocoding(df) ==
    [columns |-> df.columns \cup IrisColumns,
     rows |-> [j \in DOMAIN df.rows |->
                 Merge(df.rows[j], [c \in IrisColumns |-> NA])]]

\* process_output(chunk, chunk_no, iris_geocoding).  `fault` is what the
\* collaborators do to this chunk: "ok", "geometry" (the spatial join or CRS
\* step raises) or "io" (to_csv raises).  raised is "" when the chunk is saved.
ProcessOutput(chunk, iris, fault) ==
    LET df == ConvertToDataframeAndFormat(chunk)
    IN  IF iris /\ CreateGeometriesRaises(df)
        THEN [raised |-> "columns", df |-> df]
        ELSE IF iris /\ fault = "geometry"
             THEN [raised |-> "geometry", df |-> df]
             ELSE IF fault = "io"
                  THEN [raised |-> "io", df |-> df]
                  ELSE [raised |-> "",
                        df |-> IF iris THEN PerformIrisGeocoding(df) ELSE df]

Faults(iris) == IF iris THEN {"ok", "geometry", "io"} ELSE {"ok", "io"}

SaveProcessedDfAlwaysHeader(csv, exists, df) ==
    csv \o <<[header |-> df.columns]>>
        \o [j \in DOMAIN df.rows |-> [row |-> df.rows[j]]]

\* _save_processed_df / _save_output: append to the CSV file, with a header
\* line when the file does not exist yet
SaveProcessedDf(csv, exists, df) ==
    csv \o (IF exists THEN <<>> ELSE <<[header |-> df.columns]>>)
         \o [j \in DOMAIN df.rows |-> [row |-> df.rows[j]]]

(* --------------------------- run summary ------------------------------ *)
FormatRatioFraction(count, total) ==
    LET hundredths == (2 * 100 * count + total) \div (2 * total)
    IN  Str(hundredths \div 100) \o "." \o Digits[((hundredths % 100) \div 10) + 1]
            \o Digits[(hundredths % 10) + 1] \o "%"

\* f"{(count / total) * 100:.2f}%", total > 0
FormatRatio(count, total) ==
    LET hundredths == (2 * 10000 * count + total) \div (2 * total)
    IN  Str(hundredths \div 100) \o "." \o Digits[((hundredths % 100) \div 10) + 1]
            \o Digits[(hundredths % 10) + 1] \o "%"

\* total_processed = total_success + total_failed
TotalProcessed(success, failed) == success + failed

\* GeocodingOrchestratorResult (execution_time and the file path left out)
OrchestratorResult(chunks, success, failed) ==
    LET total_processed == TotalProcessed(success, failed)
    IN  [status |-> "success",
         total_chunks |-> Str(chunks),
         total_processed |-> Str(total_processed),
         success_count |-> Str(success),
         success_ratio |-> FormatRatio(success, total_processed),
         error_count |-> Str(failed),
         error_ratio |-> FormatRatio(failed, total_processed)]

NoSummary == [status |-> None]

vars ==
    <<revision, records, config, iris_geocoding, pc, submitted, tstate, attempt,
      retry_delay, result, collected, output, total_success, total_failed,
      total_chunks, file, file_exists, flushes, raised, summary, probe>>

setup == <<revision, records, config, iris_geocoding, probe>>
tasks == <<tstate, attempt, retry_delay, result>>
counters == <<total_success, total_failed, total_chunks>>
sink == <<file, file_exists, flushes>>

Tasks == 1..records

NoProbe == [state |-> "none"]

\* nothing fetched, nothing submitted, nothing flushed
NotStarted ==
    /\ pc = "fetch"
    /\ submitted = 0
    /\ tstate = [i \in Tasks |-> "unsubmitted"]
    /\ attempt = [i \in Tasks |-> 0]
    /\ retry_delay = [i \in Tasks |-> 0]
    /\ result = [i \in Tasks |-> EmptyDict]
    /\ collected = {}
    /\ output = <<>>
    /\ total_success = 0
    /\ total_failed = 0
    /\ total_chunks = 0
    /\ flushes = <<>>
    /\ raised = ""
    /\ summary = NoSummary

\* not started, and the destination file does not exist
Idle ==
    /\ NotStarted
    /\ file = <<>>
    /\ file_exists = FALSE

\* a run of execute_geocoding_workflow over `records` records, under a valid
\* InputDataProcessorConfig (every value an integer > 0)
Init ==
    /\ revision \in Revisions
    /\ records \in 0..MaxRecords
    /\ config \in [max_workers : 1..MaxWorkers, chunksize : 1..MaxChunksize,
                   retry_delay : {DefaultRetryDelay}, max_retry_no : 1..MaxRetryNo]
    /\ iris_geocoding \in BOOLEAN
    /\ probe = NoProbe
    /\ Idle

(* ---------------- RetryingResolver: _perform_geocoding ---------------- *)
BusyRunningOnly == {i \in Tasks : tstate[i] = "running"}

\* the tasks that hold a pool thread
Busy == {i \in Tasks : tstate[i] \in {"running", "sleeping"}}
Queued == {i \in Tasks : tstate[i] = "queued"}
Done == {i \in Tasks : tstate[i] = "done"}

NextDelayConstant(delay) == delay

\* retry_delay *= 2
NextDelay(delay) == delay * 2

HasNextAttemptOneMore(n, max_retry_no) == n < max_retry_no

\* range(max_retry_no): is there another iteration after attempt number n
HasNextAttempt(n, max_retry_no) == n + 1 < max_retry_no

FirstDelayShared(cfg, delays) ==
    IF \E k \in DOMAIN delays : delays[k] > cfg.retry_delay
    THEN CHOOSE d \in Range(delays) : \A k \in DOMAIN delays : delays[k] <= d
    ELSE cfg.retry_delay

\* retry_delay = self.input_data_processor_config.retry_delay: a local of the
\* call, set from the configuration whatever the other tasks' delays are
FirstDelay(cfg, delays) == cfg.retry_delay

\* a pool thread takes the oldest queued work item and enters
\* _perform_geocoding: retry_delay is read from the configuration
StartTask(i) ==
    /\ i \in Queued
    /\ i = Min(Queued)
    /\ Cardinality(Busy) < config.max_workers
    /\ tstate' = [tstate EXCEPT ![i] = "running"]
    /\ attempt' = [attempt EXCEPT ![i] = 0]
    /\ retry_delay' = [retry_delay EXCEPT ![i] = FirstDelay(config, retry_delay)]
    /\ UNCHANGED <<setup, pc, submitted, result, collected, output, counters,
                   sink, raised, summary>>

\* what one call of _geocode_input_row for record i can do, over every way
\* the providers can answer
OutcomesOf(rev, i) ==
    {LET r == GeocodeInputRow(rev, Ids[i], Addresses[i], resp, crash)
     IN  [raised |-> r.raised, row |-> r.row] :
        resp \in [1..NumProviders -> Responses], crash \in BOOLEAN}

\* the same, tabulated by revision and record
AttemptOutcomes ==
    [new |-> <<OutcomesOf("new", 1), OutcomesOf("new", 2), OutcomesOf("new", 3),
               OutcomesOf("new", 4)>>,
     old |-> <<OutcomesOf("old", 1), OutcomesOf("old", 2), OutcomesOf("old", 3),
               OutcomesOf("old", 4)>>]

\* what one iteration of the retry loop does to the task's locals, given
\* what _geocode_input_row did: its row is returned (the locals die with the
\* call), or it raised and time.sleep(retry_delay) starts
AttemptStep(i, r) ==
    IF r.raised
    THEN /\ tstate' = [tstate EXCEPT ![i] = "sleeping"]
         /\ UNCHANGED <<attempt, retry_delay, result>>
    ELSE /\ tstate' = [tstate EXCEPT ![i] = "done"]
         /\ result' = [result EXCEPT ![i] = r.row]
         /\ attempt' = [attempt EXCEPT ![i] = 0]
         /\ retry_delay' = [retry_delay EXCEPT ![i] = 0]

\* one iteration of the retry loop of task i
Attempt(i) ==
    /\ tstate[i] = "running"
    /\ \E r \in AttemptOutcomes[revision][i] : AttemptStep(i, r)
    /\ UNCHANGED <<setup, pc, submitted, collected, output, counters, sink,
                   raised, summary>>

\* time.sleep(retry_delay[i]) ends: the delay doubles and the loop goes on, or
\* the loop is over and the empty marker {} is returned
WakeStep(i) ==
    /\ tstate[i] = "sleeping"
    /\ IF HasNextAttempt(attempt[i], config.max_retry_no)
       THEN /\ retry_delay' = [retry_delay EXCEPT ![i] = NextDelay(@)]
            /\ attempt' = [attempt EXCEPT ![i] = @ + 1]
            /\ tstate' = [tstate EXCEPT ![i] = "running"]
            /\ UNCHANGED result
       ELSE /\ tstate' = [tstate EXCEPT ![i] = "done"]
            /\ result' = [result EXCEPT ![i] = EmptyDict]
            /\ attempt' = [attempt EXCEPT ![i] = 0]
            /\ retry_delay' = [retry_delay EXCEPT ![i] = 0]

Wake(i) ==
    /\ WakeStep(i)
    /\ UNCHANGED <<setup, pc, submitted, collected, output, counters, sink,
                   raised, summary>>

(* ------------ GeocodingOrchestrator: execute_geocoding_workflow ------- *)
ShouldFlushStrict(buffer, chunksize) == Len(buffer) > chunksize

\* len(output) >= chunksize
ShouldFlush(buffer, chunksize) == Len(buffer) >= chunksize

\* `if output:` after the pool has shut down
ShouldFlushFinalNever(buffer) == FALSE

ShouldFlushFinalAlways(buffer) == TRUE

ShouldFlushFinal(buffer) == buffer /= <<>>

AfterFlushErrorSwallowed(all_collected) ==
    IF all_collected THEN "final" ELSE "collect"

\* where the main thread goes when process_output raised inside the loop:
\* the exception is re-raised and leaves the `with` block, whose exit waits
\* for every submitted task (shutdown(wait=True))
AfterFlushError(all_collected) == "shutdown"

AfterInputErrorIgnored == "submit"

\* where the main thread goes when the input generator raised: the exception
\* leaves the comprehension that submits the tasks, and the workflow
AfterInputError == "raised"

\* the first next() on _fetch_input_data_from_file reads and validates the
\* input file; a failure raises before anything is submitted
FetchInput ==
    /\ pc = "fetch"
    /\ \E ok \in BOOLEAN :
          IF ok
          THEN /\ pc' = IF records = 0 THEN "final" ELSE "submit"
               /\ UNCHANGED raised
          ELSE /\ pc' = AfterInputError
               /\ raised' = "input"
    /\ UNCHANGED <<setup, submitted, tasks, collected, output, counters, sink,
                   summary>>

AfterSubmitLazy(n, total) == "collect"

\* the comprehension that builds `futures` submits a task for every record
\* of the input before the as_completed loop starts
AfterSubmit(n, total) == IF n = total THEN "collect" ELSE "submit"

\* executor.submit(self._perform_geocoding, id, address) for the next record
Submit ==
    /\ pc = "submit"
    /\ submitted' = submitted + 1
    /\ tstate' = [tstate EXCEPT ![submitted + 1] = "queued"]
    /\ pc' = AfterSubmit(submitted + 1, records)
    /\ UNCHANGED <<setup, attempt, retry_delay, result, collected, output,
                   counters, sink, raised, summary>>

\* one iteration of `for future in as_completed(futures)`
Collect(f) ==
    /\ pc = "collect"
    /\ f \in Done \ collected
    /\ collected' = collected \cup {f}
    /\ total_success' = total_success + 1
    /\ LET buffer == Append(output, result[f])
           all_collected == collected \cup {f} = Tasks
       IN  IF ShouldFlush(buffer, config.chunksize)
           THEN \E fault \in Faults(iris_geocoding) :
                  LET po == ProcessOutput(buffer, iris_geocoding, fault)
                  IN  /\ total_chunks' = total_chunks + 1
                      /\ flushes' = Append(flushes,
                             [chunk_no |-> total_chunks + 1, size |-> Len(buffer),
                              raised |-> po.raised])
                      /\ IF po.raised = ""
                         THEN /\ file' = SaveProcessedDf(file, file_exists, po.df)
                              /\ file_exists' = TRUE
                              /\ output' = <<>>
                              /\ pc' = IF all_collected THEN "final" ELSE "collect"
                              /\ UNCHANGED <<total_failed, raised>>
                         ELSE /\ total_failed' = total_failed + 1
                              /\ raised' = po.raised
                              /\ output' = buffer
                              /\ pc' = AfterFlushError(all_collected)
                              /\ UNCHANGED <<file, file_exists>>
           ELSE /\ output' = buffer
                /\ pc' = IF all_collected THEN "final" ELSE "collect"
                /\ UNCHANGED <<total_failed, total_chunks, sink, raised>>
    /\ UNCHANGED <<setup, submitted, tasks, summary>>

\* the exception leaves the `with ThreadPoolExecutor` block once every
\* submitted task has finished
AwaitShutdown ==
    /\ pc = "shutdown"
    /\ Done = Tasks
    /\ pc' = "raised"
    /\ UNCHANGED <<setup, submitted, tasks, collected, output, counters, sink,
                   raised, summary>>

\* after the pool: the final partial chunk, then the summary.  The summary of
\* orchestrator.py divides by total_processed; geocoding_orchestrator.py
\* returns None.
Finish ==
    /\ pc = "final"
    /\ \E fault \in Faults(iris_geocoding) :
          LET flush == ShouldFlushFinal(output)
              po == ProcessOutput(output, iris_geocoding, fault)
              chunks == IF flush THEN total_chunks + 1 ELSE total_chunks
          IN  /\ total_chunks' = chunks
              /\ IF flush
                 THEN flushes' = Append(flushes,
                          [chunk_no |-> chunks, size |-> Len(output),
                           raised |-> po.raised])
                 ELSE UNCHANGED flushes
              /\ IF flush /\ po.raised /= ""
                 THEN /\ pc' = "raised"
                      /\ raised' = po.raised
                      /\ UNCHANGED <<file, file_exists, summary>>
                 ELSE /\ IF flush
                         THEN /\ file' = SaveProcessedDf(file, file_exists, po.df)
                              /\ file_exists' = TRUE
                         ELSE UNCHANGED <<file, file_exists>>
                      /\ IF revision = "old"
                         THEN /\ pc' = "returned"
                              /\ UNCHANGED <<raised, summary>>
                         ELSE IF TotalProcessed(total_success, total_failed) = 0
                              THEN /\ pc' = "raised"
                                   /\ raised' = "zerodiv"
                                   /\ UNCHANGED summary
                              ELSE /\ pc' = "returned"
                                   /\ summary' = OrchestratorResult(chunks,
                                          total_success, total_failed)
                                   /\ UNCHANGED raised
    /\ UNCHANGED <<setup, submitted, tasks, collected, output, total_success,
                   total_failed>>

Next ==
    \/ FetchInput
    \/ Submit
    \/ \E i \in Tasks : StartTask(i)
    \/ \E i \in Tasks : Attempt(i)
    \/ \E i \in Tasks : Wake(i)
    \/ \E f \in Tasks : Collect(f)
    \/ AwaitShutdown
    \/ Finish

Spec == Init /\ [][Next]_vars

(* ------------- the chain on its own: geocode_address(address) --------- *)
\* every way the three providers can answer one chain invocation
InitChain ==
    /\ revision \in Revisions
    /\ records = 0
    /\ config = [max_workers |-> 1, chunksize |-> 1,
                 retry_delay |-> DefaultRetryDelay, max_retry_no |-> 1]
    /\ iris_geocoding = FALSE
    /\ probe \in [state : {"pending"}, resp : [1..NumProviders -> Responses],
                  address : {Addresses[1], Truncate(Addresses[2])}]
    /\ Idle

CallGeocodeAddress ==
    /\ probe.state = "pending"
    /\ probe' = [state |-> "returned", resp |-> probe.resp,
                 address |-> probe.address,
                 result |-> IF revision = "new"
                            THEN GeocodeAddressNew(probe.resp, probe.address)
                            ELSE GeocodeAddressOld(probe.resp, probe.address)]
    /\ UNCHANGED <<revision, records, config, iris_geocoding, pc, submitted,
                   tasks, collected, output, counters, sink, raised, summary>>

NextChain == CallGeocodeAddress

SpecChain == InitChain /\ [][NextChain]_vars


(* -------- _perform_geocoding on its own, with its calls and waits ------ *)
\* positive values of RETRY_DELAY
RetryDelays == {1, DefaultRetryDelay}

\* one record, (Ids[probe.record], Addresses[probe.record]); probe keeps,
\* for its task, what each call of
\* _geocode_input_row met (the answers of the providers called, in order)
\* and each time.sleep performed
InitRetry ==
    /\ revision \in Revisions
    /\ records = 1
    /\ config \in [max_workers : {1}, chunksize : {1}, retry_delay : RetryDelays,
                   max_retry_no : 1..MaxRetryNo]
    /\ iris_geocoding = FALSE
    /\ probe \in [state : {"trace"}, record : {1, 2}, calls : {<<>>},
                  waits : {<<>>}]
    /\ Idle

TraceAttempt ==
    /\ tstate[1] = "running"
    /\ \E resp \in [1..NumProviders -> Responses], crash \in BOOLEAN :
          LET r == GeocodeInputRow(revision, Ids[probe.record],
                                   Addresses[probe.record], resp, crash)
          IN  /\ AttemptStep(1, [raised |-> r.raised, row |-> r.row])
              /\ probe' = [probe EXCEPT !.calls =
                             Append(@, [answers |-> [k \in DOMAIN r.called |->
                                                        resp[r.called[k]]],
                                        called |-> r.called,
                                        queried |-> r.queried,
                                        invoked |-> ~crash,
                                        raised |-> r.raised])]
    /\ UNCHANGED <<revision, records, config, iris_geocoding, pc, submitted,
                   collected, output, counters, sink, raised, summary>>

TraceWake ==
    /\ WakeStep(1)
    /\ probe' = [probe EXCEPT !.waits = Append(@, retry_delay[1])]
    /\ UNCHANGED <<revision, records, config, iris_geocoding, pc, submitted,
                   collected, output, counters, sink, raised, summary>>

NextRetry ==
    \/ FetchInput
    \/ Submit
    \/ StartTask(1)
    \/ TraceAttempt
    \/ TraceWake

SpecRetry == InitRetry /\ [][NextRetry]_vars


(* ------------- provider requests in time: the rate limiter ------------- *)
MaxClock == 2

\* GeocodingService.default_delay, in seconds
DefaultDelay == 1

Workers == 1..MaxWorkers

\* RateLimiter(geocode, min_delay_seconds=default_delay) as geocode_address
\* constructs it, in each iteration of its loop: no call made through it yet
NewRateLimiter == [last_call |-> None]

\* how long a call through the limiter sleeps before the request goes out
RateLimiterWait(limiter, min_delay, now) ==
    IF limiter.last_call = None THEN 0
    ELSE IF min_delay - (now - limiter.last_call) > 0
         THEN min_delay - (now - limiter.last_call)
         ELSE 0

\* what the chain does after provider gs answered: the next provider, or
\* NumProviders + 1 when the invocation is over
ProviderAfter(rev, gs, answer) ==
    IF answer = "match" THEN NumProviders + 1
    ELSE IF answer = "none" \/ rev = "new" THEN gs + 1
    ELSE NumProviders + 1

\* every worker thread runs one chain invocation; probe keeps the wall clock,
\* each worker's position in the chain and the requests sent so far
InitRate ==
    /\ revision \in Revisions
    /\ records = 0
    /\ config = [max_workers |-> MaxWorkers, chunksize |-> 1,
                 retry_delay |-> DefaultRetryDelay, max_retry_no |-> 1]
    /\ iris_geocoding = FALSE
    /\ probe = [state |-> "rate", clock |-> 0,
                next |-> [w \in Workers |-> 1], requests |-> {}]
    /\ Idle

\* one iteration of the loop of geocode_address in worker w: a limiter is
\* built around the provider's geocode, and the call goes through it
CallProvider(w) ==
    /\ probe.state = "rate"
    /\ probe.next[w] <= NumProviders
    /\ \E answer \in Responses :
          LET gs == probe.next[w]
              geocode == NewRateLimiter
              at == probe.clock + RateLimiterWait(geocode, DefaultDelay, probe.clock)
          IN  probe' = [probe EXCEPT
                          !.requests = @ \cup {[provider |-> gs, at |-> at,
                                                worker |-> w]},
                          !.next[w] = ProviderAfter(revision, gs, answer)]
    /\ UNCHANGED <<revision, records, config, iris_geocoding, pc, submitted,
                   tasks, collected, output, counters, sink, raised, summary>>

\* time passes
Tick ==
    /\ probe.state = "rate"
    /\ probe.clock < MaxClock
    /\ probe' = [probe EXCEPT !.clock = @ + 1]
    /\ UNCHANGED <<revision, records, config, iris_geocoding, pc, submitted,
                   tasks, collected, output, counters, sink, raised, summary>>

NextRate ==
    \/ \E w \in Workers : CallProvider(w)
    \/ Tick

SpecRate == InitRate /\ [][NextRate]_vars


(* ------- geocode_address called repeatedly, deterministic providers ---- *)
MaxInvocations == 3

\* what a deterministic provider stub answers
StubResponses == {"match", "none", "timeout"}

\* the two addresses resolved, as indexes into Addresses
StubAddresses == {1, 3}

\* probe.stub fixes, for each address, what every provider answers to it;
\* probe.history keeps each invocation made and what it returned
InitRepeat ==
    /\ revision \in Revisions
    /\ records = 0
    /\ config = [max_workers |-> MaxWorkers, chunksize |-> 1,
                 retry_delay |-> DefaultRetryDelay, max_retry_no |-> 1]
    /\ iris_geocoding = FALSE
    /\ probe \in [state : {"repeat"},
                  stub : [StubAddresses -> [1..NumProviders -> StubResponses]],
                  history : {<<>>}]
    /\ Idle

\* one more invocation of geocode_address, by whichever worker task
RepeatGeocodeAddress ==
    /\ probe.state = "repeat"
    /\ Len(probe.history) < MaxInvocations
    /\ \E a \in StubAddresses :
          probe' = [probe EXCEPT !.history =
                      Append(@, [address_no |-> a,
                                 result |->
                                    IF revision = "new"
                                    THEN GeocodeAddressNew(probe.stub[a], Addresses[a])
                                    ELSE GeocodeAddressOld(probe.stub[a], Addresses[a])])]
    /\ UNCHANGED <<revision, records, config, iris_geocoding, pc, submitted,
                   tasks, collected, output, counters, sink, raised, summary>>

NextRepeat == RepeatGeocodeAddress

SpecRepeat == InitRepeat /\ [][NextRepeat]_vars


(* ------------- a run whose destination file may already exist ---------- *)
\* what an earlier run left in the destination file
ExistingContent == <<[header |-> {"id"}], [row |-> [id |-> "0"]]>>

\* probe.existed, probe.existing: whether the destination existed when the
\* run started, and what it held
InitSink ==
    /\ revision \in Revisions
    /\ records \in 1..MaxRecords
    /\ config \in [max_workers : {1}, chunksize : 1..MaxChunksize,
                   retry_delay : {DefaultRetryDelay}, max_retry_no : {1, 2}]
    /\ iris_geocoding = FALSE
    /\ probe \in {[state |-> "sink", existed |-> FALSE, existing |-> <<>>],
                  [state |-> "sink", existed |-> TRUE, existing |-> <<>>],
                  [state |-> "sink", existed |-> TRUE, existing |-> ExistingContent]}
    /\ NotStarted
    /\ file = probe.existing
    /\ file_exists = probe.existed

SpecSink == InitSink /\ [][Next]_vars


(* ------------- a whole run, every step of which ends in finite time ---- *)
\* orchestrator.py over geocoder.py
\* probe.invocations: the most chain invocations a task has made so far;
\* probe.provider_calls: the most provider calls one invocation has made
InitLive ==
    /\ revision = "new"
    /\ records \in 0..MaxRecords
    /\ config \in [max_workers : 1..MaxWorkers, chunksize : {1},
                   retry_delay : {DefaultRetryDelay}, max_retry_no : 1..MaxRetryNo]
    /\ iris_geocoding = FALSE
    /\ probe = [state |-> "live", invocations |-> 0, provider_calls |-> 0]
    /\ Idle

\* what one call of _geocode_input_row for record i can do and how many
\* provider calls it makes, over every way the providers can answer
CountedOutcomesOf(rev, i) ==
    {LET r == GeocodeInputRow(rev, Ids[i], Addresses[i], resp, crash)
     IN  [raised |-> r.raised, row |-> r.row, provider_calls |-> Len(r.called)] :
        resp \in [1..NumProviders -> Responses], crash \in BOOLEAN}

CountedOutcomes ==
    [new |-> <<CountedOutcomesOf("new", 1), CountedOutcomesOf("new", 2),
               CountedOutcomesOf("new", 3), CountedOutcomesOf("new", 4)>>,
     old |-> <<CountedOutcomesOf("old", 1), CountedOutcomesOf("old", 2),
               CountedOutcomesOf("old", 3), CountedOutcomesOf("old", 4)>>]

\* iteration number attempt[i] of the retry loop of task i (the chain
\* invocation number attempt[i] + 1), its provider calls counted
LiveAttempt(i) ==
    /\ probe.state = "live"
    /\ tstate[i] = "running"
    /\ \E r \in CountedOutcomes[revision][i] :
          /\ AttemptStep(i, [raised |-> r.raised, row |-> r.row])
          /\ probe' = [probe EXCEPT
                         !.invocations =
                             IF attempt[i] + 1 > @ THEN attempt[i] + 1 ELSE @,
                         !.provider_calls =
                             IF r.provider_calls > @ THEN r.provider_calls ELSE @]
    /\ UNCHANGED <<revision, records, config, iris_geocoding, pc, submitted,
                   collected, output, counters, sink, raised, summary>>

NextLive ==
    \/ FetchInput
    \/ Submit
    \/ \E i \in Tasks : StartTask(i)
    \/ \E i \in Tasks : LiveAttempt(i)
    \/ \E i \in Tasks : Wake(i)
    \/ \E f \in Tasks : Collect(f)
    \/ AwaitShutdown
    \/ Finish

\* every provider call, sleep and flush returns or raises in finite time, and
\* the threads are scheduled: a step that can be taken is taken
SpecLive == InitLive /\ [][NextLive]_vars /\ WF_vars(NextLive)


(* ---------- InputDataProcessorConfig: construction and validation ------ *)
\* the four settings, in the order __post_init__ reads them
Settings == <<"MAX_WORKERS", "CHUNKSIZE", "RETRY_DELAY", "MAX_RETRY_NO">>

\* what an environment variable can hold, as character sequences
EnvTexts ==
    {<<"1">>, <<"2">>, <<"+", "3">>, <<"0">>, <<"-", "1">>, <<"1", ".", "5">>,
     <<"a">>, <<>>}

\* an environment variable, set to a text or not set
EnvValues ==
    {[set |-> FALSE, text |-> <<>>]} \cup {[set |-> TRUE, text |-> t] : t \in EnvTexts}

CpuCounts == {1, 4}

IsDigit(ch) == \E k \in DOMAIN Digits : Digits[k] = ch
DigitValue(ch) == (CHOOSE k \in DOMAIN Digits : Digits[k] = ch) - 1

\* the value of a sequence of decimal digits
RECURSIVE DigitsValue(_)
DigitsValue(text) ==
    IF text = <<>> THEN 0
    ELSE 10 * DigitsValue(SubSeq(text, 1, Len(text) - 1)) + DigitValue(text[Len(text)])

\* int(x): an int is returned as it is; a text is an optional sign followed
\* by one or more decimal digits, anything else raises ValueError
ToInt(x) ==
    IF x.kind = "int" THEN [raised |-> "", value |-> x.value]
    ELSE LET signed == x.text /= <<>> /\ x.text[1] \in {"+", "-"}
             digits == IF signed THEN Tail(x.text) ELSE x.text
         IN  IF digits /= <<>> /\ \A k \in DOMAIN digits : IsDigit(digits[k])
             THEN [raised |-> "",
                   value |-> IF signed /\ x.text[1] = "-"
                             THEN 0 - DigitsValue(digits) ELSE DigitsValue(digits)]
             ELSE [raised |-> "ValueError", value |-> 0]

\* env_manager.get_environment_var(variable, default): the text the variable
\* holds, or the default when it is not set
GetEnvironmentVar(env, variable, default) ==
    IF env[variable].set THEN [kind |-> "str", text |-> env[variable].text]
    ELSE [kind |-> "int", value |-> default]

ValidatePositiveValueNonNegative(vars_dict) ==
    IF \E k \in DOMAIN vars_dict : vars_dict[k] < 0 THEN "ValueError" ELSE ""

\* validate_positive_value: every value is an int here, so only `val <= 0`
\* can raise
ValidatePositiveValue(vars_dict) ==
    IF \E k \in DOMAIN vars_dict : vars_dict[k] <= 0 THEN "ValueError" ELSE ""

\* InputDataProcessorConfig.__post_init__: the object, or the exception
InputDataProcessorConfig(env, cpu_count) ==
    LET max_workers == ToInt(GetEnvironmentVar(env, "MAX_WORKERS",
                                 IF cpu_count - 1 > 1 THEN cpu_count - 1 ELSE 1))
        chunksize == ToInt(GetEnvironmentVar(env, "CHUNKSIZE", 100))
        delay == ToInt(GetEnvironmentVar(env, "RETRY_DELAY", DefaultRetryDelay))
        max_retry_no == ToInt(GetEnvironmentVar(env, "MAX_RETRY_NO", 3))
        read == <<delay, max_retry_no, chunksize, max_workers>>
        values == [k \in DOMAIN read |-> read[k].value]
    IN  IF \E k \in DOMAIN read : read[k].raised /= ""
        THEN [raised |-> "ValueError"]
        ELSE IF ValidatePositiveValue(values) /= ""
             THEN [raised |-> ValidatePositiveValue(values)]
             ELSE [raised |-> "",
                   max_workers |-> max_workers.value, chunksize |-> chunksize.value,
                   retry_delay |-> delay.value, max_retry_no |-> max_retry_no.value]

\* probe.env: the environment; probe.outcome: what the construction gave
InitConfig ==
    /\ revision = "new"
    /\ records = 0
    /\ config = [max_workers |-> 1, chunksize |-> 1,
                 retry_delay |-> DefaultRetryDelay, max_retry_no |-> 1]
    /\ iris_geocoding = FALSE
    /\ probe \in [state : {"environment"},
                  env : [Range(Settings) -> EnvValues],
                  cpu_count : CpuCounts]
    /\ Idle

ConstructConfig ==
    /\ probe.state = "environment"
    /\ probe' = [state |-> "constructed", env |-> probe.env,
                 cpu_count |-> probe.cpu_count,
                 outcome |-> InputDataProcessorConfig(probe.env, probe.cpu_count)]
    /\ UNCHANGED <<revision, records, config, iris_geocoding, pc, submitted,
                   tasks, collected, output, counters, sink, raised, summary>>

NextConfig == ConstructConfig

SpecConfig == InitConfig /\ [][NextConfig]_vars

(* ======================== the claims, C1 to C10 ======================= *)
Ceil(m, k) == (m + k - 1) \div k

\* the row lines of the CSV file, and the id cell of one
FlushedRows == SelectSeq(file, LAMBDA line : "row" \in DOMAIN line)
RowId(line) == IF "id" \in DOMAIN line.row THEN line.row["id"] ELSE NA

FlushFailed == \E j \in DOMAIN flushes : flushes[j].raised /= ""

\* the run is over and no process_output call raised
CompletedWithoutFlushFailure ==
    pc = "returned" \/ (pc = "raised" /\ raised = "zerodiv")

\* what became of each address
Exhausted == {i \in Tasks : tstate[i] = "done" /\ DOMAIN result[i] = {}}
Resolved ==
    {i \in Tasks : tstate[i] = "done" /\ "is_encoded" \in DOMAIN result[i]
                   /\ result[i]["is_encoded"] = "True"}
Unresolved ==
    {i \in Tasks : tstate[i] = "done" /\ "is_encoded" \in DOMAIN result[i]
                   /\ result[i]["is_encoded"] = "False"}

SummaryReturned == revision = "new" /\ pc = "returned"

\* 100 * count / total to two decimals, as the summary prints a percentage
Percent(count, total) ==
    LET whole == (100 * count) \div total
        rest == (100 * count) % total
        cents == (200 * rest + total) \div (2 * total)
        h == 100 * whole + cents
    IN  Str(h \div 100) \o "." \o Str((h % 100) \div 10) \o Str(h % 10) \o "%"

\* C1: when the run ends and no flush failed, the ids of the flushed rows are
\* exactly the input ids, each exactly once, whatever the outcome of each
\* address (Resolved, Unresolved or retry exhaustion).
C1_FlushedIdsAreTheInputIds ==
    CompletedWithoutFlushFailure =>
        /\ Len(FlushedRows) = records
        /\ \A i \in Tasks :
              Cardinality({j \in DOMAIN FlushedRows :
                              RowId(FlushedRows[j]) = Ids[i]}) = 1

\* C2: a run in which no flush fails calls process_output exactly
\* ceil(m / k) times, and the summary reports total_chunks = ceil(m / k).
C2_ChunkCountIsCeil ==
    CompletedWithoutFlushFailure =>
        /\ Len(flushes) = Ceil(records, config.chunksize)
        /\ SummaryReturned =>
              summary.total_chunks = Str(Ceil(records, config.chunksize))

C2_Witness ==
    /\ SummaryReturned
    /\ records = 2
    /\ config.chunksize = 1
    /\ Len(flushes) = 2
    /\ summary.total_chunks = "2"

\* C3: in the run summary, an address whose retry loop was exhausted is
\* counted in error_count and not in success_count.
C3_ExhaustedCountsAsError ==
    SummaryReturned =>
        \E s \in 0..records, e \in 0..records :
            /\ summary.success_count = Str(s)
            /\ summary.error_count = Str(e)
            /\ e >= Cardinality(Exhausted)
            /\ s <= records - Cardinality(Exhausted)

\* C4: in the run summary, success_count is the number of Resolved addresses
\* and error_count the number of Unresolved ones.
C4_CountsMatchOutcomes ==
    SummaryReturned =>
        /\ summary.success_count = Str(Cardinality(Resolved))
        /\ summary.error_count = Str(Cardinality(Unresolved))

\* C5: every run summary has total_processed = success_count + error_count =
\* number of input records, and the two ratios are the percentages of
\* total_processed (so they sum to 100%).
C5_SummaryArithmetic ==
    SummaryReturned =>
        \E s \in 0..records, e \in 0..records :
            /\ summary.success_count = Str(s)
            /\ summary.error_count = Str(e)
            /\ s + e = records
            /\ summary.total_processed = Str(records)
            /\ summary.success_ratio = Percent(s, records)
            /\ summary.error_ratio = Percent(e, records)

C5_Witness ==
    /\ SummaryReturned
    /\ records = 2
    /\ summary.total_processed = "2"
    /\ summary.success_ratio = "100.00%"

\* C6: for every finite input, the empty one included, a run with a valid
\* configuration in which no flush or enrichment step fails returns a run
\* summary: whatever exception leaves execute_geocoding_workflow is an input,
\* flush or enrichment fault.
C6_RaisesOnlyOnFatalFault ==
    (revision = "new" /\ pc = "raised") =>
        raised \in {"input", "columns", "geometry", "io"}

\* C7: with collaborators that never fail, no mix of per-address outcomes
\* makes the run raise: an exception that leaves the run never comes from the
\* rows of a chunk all belonging to unresolved addresses.
C7_OutcomesNeverAbortTheRun ==
    raised \in {"", "input", "geometry", "io", "zerodiv"}

\* C8: if process_output raises on the j-th chunk, the run raises without a
\* summary, no later chunk is handed to process_output, and what chunks
\* 1..j-1 wrote stays in the file unchanged.
RECURSIVE WrittenBefore(_)
WrittenBefore(j) ==
    IF j <= 1 THEN 0 ELSE WrittenBefore(j - 1) + flushes[j - 1].size

C8_AbortState ==
    FlushFailed =>
        /\ flushes[Len(flushes)].raised /= ""
        /\ \A j \in 1..(Len(flushes) - 1) : flushes[j].raised = ""
        /\ pc \in {"shutdown", "raised"}
        /\ summary = NoSummary
        /\ Len(FlushedRows) = WrittenBefore(Len(flushes))

C8_FlushFailureAbortsRun ==
    /\ []C8_AbortState
    /\ [][FlushFailed => (file' = file /\ flushes' = flushes
                          /\ summary' = summary /\ file_exists' = file_exists)]_vars

C8_Witness ==
    /\ pc = "raised"
    /\ Len(flushes) = 2
    /\ flushes[1].raised = ""
    /\ flushes[2].raised = "io"
    /\ file /= <<>>

\* C9: from the moment process_output raises, no resolution work is started
\* or continued: no task starts, calls a provider or sleeps in backoff.
C9_NoWorkAfterFlushFailure ==
    [][FlushFailed => UNCHANGED <<tstate, attempt, retry_delay, result>>]_vars

\* the invocation the chain specification made, and what it returned
Returned == probe.state = "returned"
CalledProviders == Range(probe.result.called)
AuthFailedAt(i) == i \in CalledProviders /\ probe.resp[i] = "auth"
ReturnedUnresolvedWithError ==
    IF revision = "new"
    THEN /\ probe.result.status = "failed"
         /\ probe.result.error \notin {None, ""}
    ELSE /\ probe.result.is_tuple
         /\ ~probe.result.has_location
         /\ probe.result.error \notin {None, ""}
NoProviderAfter(i) == \A j \in CalledProviders : j <= i

TransientFailedAt(i) ==
    i \in CalledProviders /\ probe.resp[i] \in {"timeout", "error"}

\* the returned error is the one provider i raised (address_geocoder.py puts
\* a label in front of it)
CarriesErrorOf(i) ==
    IF revision = "new"
    THEN probe.result.error = ErrorMessage(i, probe.resp[i])
    ELSE probe.result.error \in
            {"Timeout occurred : " \o ErrorMessage(i, probe.resp[i]),
             "Unexpected error occured : " \o ErrorMessage(i, probe.resp[i])}

CalledOnce(i) ==
    Cardinality({k \in DOMAIN probe.result.called :
                    probe.result.called[k] = i}) = 1

\* the last provider that raised in the invocation
LastRaising ==
    CHOOSE j \in CalledProviders :
        /\ probe.resp[j] \in Raising
        /\ \A k \in CalledProviders : probe.resp[k] \in Raising => k <= j

EveryProviderReturnsNoMatch == \A i \in 1..NumProviders : probe.resp[i] = "none"

\* the invocation returned an outcome, and it is Unresolved
ReturnedUnresolved ==
    IF revision = "new"
    THEN probe.result.status = "failed" /\ ~probe.result.has_location
    ELSE probe.result.is_tuple /\ ~probe.result.has_location

\* C14: in both chain revisions, when every provider returns no match the
\* invocation returns an Unresolved outcome with attempt "N/N" and no error.
C14_NoMatchIsUnresolvedNOverN ==
    (Returned /\ EveryProviderReturnsNoMatch) =>
        /\ ReturnedUnresolved
        /\ probe.result.attempt = AttemptLabel(NumProviders, NumProviders)
        /\ probe.result.error = None

MatchedAt(i) ==
    /\ probe.resp[i] = "match"
    /\ \A j \in 1..(i - 1) : probe.resp[j] = "none"

\* the provider named by a Resolved outcome: the geocoder field of an
\* AddressGeocodingResult, the encoder of the location in address_geocoder.py
ProviderOfOutcome ==
    IF revision = "new" THEN probe.result.geocoder
    ELSE probe.result.location["encoder"]

ReturnedResolved ==
    IF revision = "new"
    THEN probe.result.status = "success" /\ probe.result.has_location
    ELSE probe.result.is_tuple /\ probe.result.has_location

\* C16: in both chain revisions, when providers 1..i-1 return no match and
\* provider i returns a match, the outcome is Resolved with attempt "i/N" and
\* the name of provider i.
C16_MatchAtIGivesIOverN ==
    Returned =>
        \A i \in 1..NumProviders :
            MatchedAt(i) =>
                /\ ReturnedResolved
                /\ probe.result.attempt = AttemptLabel(i, NumProviders)
                /\ ProviderOfOutcome = Geocoder[i]

FieldsPresent ==
    /\ probe.result.has_location
    /\ DOMAIN probe.result.location = OutputFields \cup {"raw_address", "encoder"}
ErrorPresent == probe.result.error \notin {None, ""}

\* C17 as stated: every AddressGeocodingResult of geocoder.py is either a
\* success with its location fields, or failed with no location and an error
\* message; never both, never neither.
C17_FieldsXorError ==
    (Returned /\ revision = "new") =>
        \/ /\ probe.result.status = "success"
           /\ FieldsPresent
           /\ ~ErrorPresent
        \/ /\ probe.result.status = "failed"
           /\ ~probe.result.has_location
           /\ ErrorPresent

\* C17, amended: a success has all its location fields and no error; a failed
\* result has no location, and an error message exactly when some provider
\* raised (none when every provider returned no match).
C17_FieldsXorFailed ==
    (Returned /\ revision = "new") =>
        \/ /\ probe.result.status = "success"
           /\ FieldsPresent
           /\ ~ErrorPresent
        \/ /\ probe.result.status = "failed"
           /\ ~probe.result.has_location
           /\ ErrorPresent <=> (\E i \in 1..NumProviders : probe.resp[i] \in Raising)

C17_Witness ==
    /\ Returned
    /\ revision = "new"
    /\ EveryProviderReturnsNoMatch
    /\ probe.result.status = "failed"
    /\ probe.result.error = None

\* --- one address in the retry loop (SpecRetry) ---
TaskReturned == records = 1 /\ tstate[1] = "done"
Calls == probe.calls
Waits == probe.waits

AllTransient(call) ==
    /\ call.answers /= <<>>
    /\ \A k \in DOMAIN call.answers : call.answers[k] \in {"timeout", "error"}
AllNoMatch(call) ==
    /\ Len(call.answers) = NumProviders
    /\ \A k \in DOMAIN call.answers : call.answers[k] = "none"
FirstProviderMatches(call) == call.answers = <<"match">>

ChainInvocations == Cardinality({k \in DOMAIN Calls : Calls[k].invoked})
RaisedCalls == Cardinality({k \in DOMAIN Calls : Calls[k].raised})

RowIsResolved(row) == "is_encoded" \in DOMAIN row /\ row["is_encoded"] = "True"

\* C12: if every provider call raises a transient error during the first t
\* chain invocations (t < max_retry_no) and the first provider matches from
\* then on, the chain is invoked t+1 times with a wait between invocations
\* and the row is Resolved.
C12_TransientFailuresAreRetried ==
    TaskReturned =>
        \A t \in 1..(config.max_retry_no - 1) :
            (Len(Calls) >= t /\ \A k \in 1..t : AllTransient(Calls[k])) =>
                /\ Len(Calls) >= t + 1
                /\ Len(Waits) >= t
                /\ FirstProviderMatches(Calls[t + 1]) =>
                      (ChainInvocations = t + 1 /\ RowIsResolved(result[1]))

RECURSIVE Pow2(_)
Pow2(n) == IF n = 0 THEN 1 ELSE 2 * Pow2(n - 1)

\* C13: the waits of _perform_geocoding are retry_delay * 2^(j-1), j = 1..t,
\* one per failed attempt, the last one included, without a cap; when every
\* one of max_retry_no attempts raises, exactly max_retry_no attempts are made
\* and the result is {}.
C13_WaitsDouble ==
    (probe.state = "trace") =>
        /\ \A j \in DOMAIN Waits : Waits[j] = config.retry_delay * Pow2(j - 1)
        /\ Len(Calls) <= config.max_retry_no
        /\ \A k \in 1..(Len(Calls) - 1) : Calls[k].raised
        /\ Len(Waits) =
              IF records = 1 /\ tstate[1] = "sleeping" THEN RaisedCalls - 1
              ELSE RaisedCalls
        /\ (TaskReturned /\ RaisedCalls = Len(Calls)) =>
              /\ Len(Calls) = config.max_retry_no
              /\ result[1] = EmptyDict
        /\ (TaskReturned /\ DOMAIN result[1] = {}) =>
              RaisedCalls = config.max_retry_no

C13_Witness ==
    /\ TaskReturned
    /\ config.max_retry_no = 2
    /\ Len(Calls) = 2
    /\ Waits = <<DefaultRetryDelay, 2 * DefaultRetryDelay>>
    /\ DOMAIN result[1] = {}

\* C15: in both orchestrator revisions, when every provider returns no match
\* for an address the chain is invoked exactly once, no backoff wait is
\* performed, and the row is {id, is_encoded: False}.
C15_NoMatchIsNotRetried ==
    (probe.state = "trace" /\ Calls /= <<>> /\ AllNoMatch(Calls[1])) =>
        /\ ChainInvocations = 1
        /\ Waits = <<>>
        /\ tstate[1] = "done"
        /\ DOMAIN result[1] = {"id", "is_encoded"}
        /\ result[1]["id"] = Ids[probe.record]
        /\ result[1]["is_encoded"] = "False"

\* C18: any two requests issued to the same provider during a run, by any
\* workers, are at least the provider's minimum delay apart.
C18_RequestsToAProviderAreSpaced ==
    (probe.state = "rate") =>
        \A r1, r2 \in probe.requests :
            (r1 /= r2 /\ r1.provider = r2.provider) =>
                \/ r2.at - r1.at >= DefaultDelay
                \/ r1.at - r2.at >= DefaultDelay

\* --- the run (Spec) ---
Executing == {i \in Tasks : tstate[i] \in {"running", "sleeping"}}

\* C19: one _perform_geocoding task is submitted per input record, and at
\* every moment at most max_workers of them are executing, the others being
\* queued or finished.
C19_OneTaskPerRecordInBoundedPool ==
    /\ Cardinality(Executing) <= config.max_workers
    /\ submitted <= records
    /\ \A i \in Tasks : (tstate[i] /= "unsubmitted") <=> (i <= submitted)
    /\ \A i \in Tasks \ Executing : tstate[i] \in {"unsubmitted", "queued", "done"}
    /\ pc \in {"collect", "shutdown", "final", "returned"} => submitted = records

C19_Witness ==
    /\ records = 2
    /\ config.max_workers = 1
    /\ tstate[1] = "sleeping"
    /\ tstate[2] = "queued"
    /\ pc = "collect"

RECURSIVE SizeOfChunks(_)
SizeOfChunks(j) == IF j = 0 THEN 0 ELSE SizeOfChunks(j - 1) + flushes[j].size

\* C20: under every order of completion, every chunk handed to process_output
\* except possibly the last holds exactly chunksize rows, the last holds
\* between 1 and chunksize, each flush happens once, and no collected outcome
\* is in two chunks or lost.
C20_ChunksPartitionTheOutcomes ==
    /\ total_chunks = Len(flushes)
    /\ \A j \in DOMAIN flushes :
          /\ flushes[j].chunk_no = j
          /\ flushes[j].size >= 1
          /\ flushes[j].size <= config.chunksize
          /\ j < Len(flushes) => flushes[j].size = config.chunksize
    /\ \A i \in Tasks :
          Cardinality({j \in DOMAIN FlushedRows :
                          RowId(FlushedRows[j]) = Ids[i]}) <= 1
    /\ IF pc = "returned"
       THEN /\ Len(FlushedRows) = records
            /\ SizeOfChunks(Len(flushes)) = records
       ELSE Len(FlushedRows) + Len(output) = Cardinality(collected)

C20_Witness ==
    /\ pc = "returned"
    /\ records = 1
    /\ config.chunksize = 2
    /\ Len(flushes) = 1
    /\ flushes[1].size = 1
    /\ Len(FlushedRows) = 1

(* ======================== the claims, C21 to C30 ====================== *)
RawAddress == Addresses[probe.record]

IsPrefixOfLength(passed, raw, n) ==
    /\ Len(passed) = n
    /\ \A j \in 1..n : passed[j] = raw[j]

\* C21: the address handed to the providers, on the first attempt and on
\* every retry, is the prefix of the raw address of length min(len, 75):
\* never longer than 75, and unchanged when the raw address has at most 75.
C21_ProvidersGetThePrefix ==
    (probe.state = "trace") =>
        \A k \in DOMAIN Calls :
            Calls[k].called /= <<>> =>
                /\ Len(Calls[k].queried) <= 75
                /\ IsPrefixOfLength(Calls[k].queried, RawAddress,
                      IF Len(RawAddress) <= 75 THEN Len(RawAddress) ELSE 75)

C21_Witness ==
    /\ probe.state = "trace"
    /\ probe.record = 2
    /\ Len(RawAddress) > 75
    /\ Len(Calls) = 2
    /\ Calls[2].called /= <<>>
    /\ Len(Calls[2].queried) = 75

FailedFlushes == {j \in DOMAIN flushes : flushes[j].raised /= ""}

\* C23: in a formatted chunk every latitude/longitude cell that was missing or
\* not numeric is 0 (so the row of an unresolved address in a chunk that also
\* holds a resolved row has 0 in both), formatting itself raises nothing, and
\* the counters move on collected outcomes and on failed flushes only.
C23_CoercedCellsAreZero ==
    /\ \A k \in DOMAIN FlushedRows :
          \A c \in NumericColumns \cap DOMAIN FlushedRows[k].row :
              /\ FlushedRows[k].row[c] \in NumericValues
              /\ ~RowIsResolved(FlushedRows[k].row) => FlushedRows[k].row[c] = "0"
    /\ \A j \in DOMAIN flushes : flushes[j].raised \in {"", "columns", "geometry", "io"}
    /\ total_success = Cardinality(collected)
    /\ total_failed <= Cardinality(FailedFlushes)

C23_Witness ==
    /\ pc = "returned"
    /\ total_success = 2
    /\ total_failed = 0
    /\ \E j, k \in DOMAIN FlushedRows :
          /\ RowIsResolved(FlushedRows[j].row)
          /\ FlushedRows[j].row["latitude"] = "1.5"
          /\ ~RowIsResolved(FlushedRows[k].row)
          /\ "latitude" \in DOMAIN FlushedRows[k].row
          /\ FlushedRows[k].row["latitude"] = "0"
          /\ FlushedRows[k].row["longitude"] = "0"

\* the first answer that is not "no match" is a match of provider i whose
\* latitude or longitude does not parse as a number
MalformedMatchAt(i) ==
    /\ probe.resp[i] = "malformed"
    /\ \A j \in 1..(i - 1) : probe.resp[j] = "none"

\* C24: in both chain revisions a match of provider i whose coordinate is
\* present but does not parse still resolves the address: Resolved by provider
\* i, no error, no later provider called.
C24_MalformedCoordinateStillResolves ==
    Returned =>
        \A i \in 1..NumProviders :
            MalformedMatchAt(i) =>
                /\ ReturnedResolved
                /\ ProviderOfOutcome = Geocoder[i]
                /\ ~ErrorPresent
                /\ NoProviderAfter(i)

\* C25: when reading or validating the input fails, the workflow has raised
\* with no task submitted: no provider was called, no backoff taken, nothing
\* flushed or written, and no summary returned.
C25_InputFailureRaisesBeforeAnyWork ==
    (raised = "input") =>
        /\ pc = "raised"
        /\ submitted = 0
        /\ \A i \in Tasks :
              /\ tstate[i] = "unsubmitted"
              /\ attempt[i] = 0
              /\ retry_delay[i] = 0
              /\ result[i] = EmptyDict
        /\ collected = {}
        /\ total_chunks = 0
        /\ flushes = <<>>
        /\ file = <<>>
        /\ ~file_exists
        /\ summary = NoSummary

C25_Witness ==
    /\ raised = "input"
    /\ pc = "raised"
    /\ records = 2
    /\ submitted = 0

\* --- the destination file (SpecSink) ---
WrittenByRun == SubSeq(file, Len(probe.existing) + 1, Len(file))
HeadersWrittenByRun ==
    {k \in DOMAIN WrittenByRun : "header" \in DOMAIN WrittenByRun[k]}
SavedFlushes == {j \in DOMAIN flushes : flushes[j].raised = ""}

HeaderWrittenAsNeeded ==
    /\ probe.existed => HeadersWrittenByRun = {}
    /\ ~probe.existed =>
          IF SavedFlushes = {} THEN WrittenByRun = <<>>
          ELSE HeadersWrittenByRun = {1}

OnlyAppended(before, after) ==
    /\ Len(before) <= Len(after)
    /\ SubSeq(after, 1, Len(before)) = before

\* C26: when the destination does not exist at the start, the first flushed
\* chunk writes the header, once, and nothing else does; when it exists, no
\* header is written; every flush only appends after what the file held.
C26_HeaderOnceAndAppendOnly ==
    [][(probe.state = "sink") =>
          /\ OnlyAppended(file, file')
          /\ OnlyAppended(probe.existing, file')
          /\ HeaderWrittenAsNeeded']_vars

C26_Witness ==
    /\ probe.state = "sink"
    /\ ~probe.existed
    /\ pc = "returned"
    /\ Cardinality(SavedFlushes) = 2
    /\ HeadersWrittenByRun = {1}
    /\ Len(file) = 3

C26_WitnessExisting ==
    /\ probe.state = "sink"
    /\ probe.existing = ExistingContent
    /\ pc = "returned"
    /\ Cardinality(SavedFlushes) = 2
    /\ Len(file) = 4

\* --- provider calls and attempts in order (SpecRetry) ---
InFixedOrder(call) == \A j \in DOMAIN call.called : call.called[j] = j

\* C27: in one chain invocation the providers are called in the fixed order,
\* each once, provider i after providers 1..i-1; one invocation at a time per
\* address; a further attempt starts only after the previous one has ended
\* (by raising) and its backoff has elapsed.
C27_ProvidersAndAttemptsInSequence ==
    (probe.state = "trace") =>
        /\ \A k \in DOMAIN Calls : InFixedOrder(Calls[k])
        /\ \A k \in 1..(Len(Calls) - 1) : Calls[k].raised
        /\ Len(Waits) <= Len(Calls)
        /\ Len(Calls) <= Len(Waits) + 1
        /\ tstate[1] = "running" => Len(Waits) = Len(Calls)
        /\ tstate[1] = "sleeping" =>
              /\ Len(Waits) = Len(Calls) - 1
              /\ Calls[Len(Calls)].raised
        /\ Len(Calls) <= config.max_retry_no

C27_Witness ==
    /\ probe.state = "trace"
    /\ Len(Calls) = 2
    /\ Calls[1].called = <<1, 2, 3>>
    /\ Calls[1].raised
    /\ Len(Waits) = 1
    /\ Calls[2].called = <<1, 2>>
    /\ tstate[1] = "done"

\* a provider returned a location: one that formats, or one whose coordinate
\* does not parse
IsMatch(answer) == answer \in {"match", "malformed"}

\* the position of the first match in a call, 0 when there is none
MatchPosition(call) ==
    IF \E j \in DOMAIN call.answers : IsMatch(call.answers[j])
    THEN CHOOSE j \in DOMAIN call.answers :
            /\ IsMatch(call.answers[j])
            /\ \A m \in 1..(j - 1) : ~IsMatch(call.answers[m])
    ELSE 0

\* C28: once a provider has returned a match, no further provider is called
\* and no backoff is taken: the match is the last answer of the last call, and
\* _perform_geocoding returns the Resolved row of that provider.
C28_MatchEndsTheTask ==
    (probe.state = "trace") =>
        \A k \in DOMAIN Calls :
            MatchPosition(Calls[k]) > 0 =>
                /\ MatchPosition(Calls[k]) = Len(Calls[k].answers)
                /\ k = Len(Calls)
                /\ ~Calls[k].raised
                /\ Len(Waits) = k - 1
                /\ tstate[1] = "done"
                /\ RowIsResolved(result[1])
                /\ result[1]["encoder"] =
                      Geocoder[Calls[k].called[MatchPosition(Calls[k])]]
                /\ result[1]["id"] = Ids[probe.record]

\* C29: a provider that raised an authentication failure for an address is
\* not called again for it: it is called once in that invocation, and the
\* invocation does not raise, so the retry loop makes no further call.
C29_NoCallAfterAuthFailure ==
    (probe.state = "trace") =>
        \A k \in DOMAIN Calls :
            \A j \in DOMAIN Calls[k].answers :
                Calls[k].answers[j] = "auth" =>
                    /\ \A m \in DOMAIN Calls[k].called :
                          Calls[k].called[m] = Calls[k].called[j] => m = j
                    /\ ~Calls[k].raised
                    /\ k = Len(Calls)
                    /\ tstate[1] = "done"
                    /\ Len(Waits) = k - 1

C29_Witness ==
    /\ probe.state = "trace"
    /\ revision = "new"
    /\ config.max_retry_no = 2
    /\ Len(Calls) = 1
    /\ Calls[1].answers = <<"auth", "none", "none">>
    /\ tstate[1] = "done"
    /\ Waits = <<>>
    /\ ~RowIsResolved(result[1])

\* --- the error of an outcome of geocoder.py (SpecChain) ---
SomeProviderRaised == \E j \in CalledProviders : probe.resp[j] \in Raising

\* C30: in geocoder.py the error of an Unresolved outcome is the message of
\* the last provider that raised, also when later providers answered no
\* match, and None when no provider raised; a Resolved outcome has no error,
\* also when an earlier provider raised.
C30_ErrorIsTheLastRaised ==
    (Returned /\ revision = "new") =>
        /\ probe.result.status = "failed" =>
              IF SomeProviderRaised
              THEN probe.result.error =
                      Geocoder[LastRaising] \o ": " \o probe.resp[LastRaising]
              ELSE probe.result.error = None
        /\ probe.result.status = "success" => probe.result.error = None

C30_Witness ==
    /\ Returned
    /\ revision = "new"
    /\ probe.resp = <<"timeout", "error", "none">>
    /\ probe.result.status = "failed"
    /\ probe.result.error = Geocoder[2] \o ": error"

C30_WitnessResolved ==
    /\ Returned
    /\ revision = "new"
    /\ probe.resp[1] = "auth"
    /\ probe.resp[2] = "match"
    /\ probe.result.status = "success"
    /\ probe.result.error = None

(* ======================== the claims, C31 to C38 ====================== *)
\* flushes of fewer rows than chunksize: inside the loop a chunk is flushed
\* when it reaches chunksize, so only the flush after the pool can be partial
PartialFlushes == {j \in DOMAIN flushes : flushes[j].size < config.chunksize}

\* C31: the final partial chunk is flushed at most once, and only after every
\* submitted task has completed and the pool has shut down; when the number
\* of records is a multiple of chunksize (zero included) there is no final
\* flush, and process_output never gets an empty chunk.
C31_FinalFlushOnceAfterThePool ==
    (probe.state = "none") =>
        /\ \A j \in DOMAIN flushes : flushes[j].size >= 1
        /\ Cardinality(PartialFlushes) <= 1
        /\ \A j \in PartialFlushes :
              /\ j = Len(flushes)
              /\ submitted = records
              /\ Done = Tasks
              /\ collected = Tasks
              /\ pc \in {"returned", "raised"}
        /\ records % config.chunksize = 0 => PartialFlushes = {}

C31_Witness ==
    /\ probe.state = "none"
    /\ records = 1
    /\ config.chunksize = 2
    /\ pc = "returned"
    /\ Len(flushes) = 1
    /\ PartialFlushes = {1}
    /\ flushes[1].raised = ""

\* the retry locals of task i are what its own retries made them
OwnRetryState(i) ==
    tstate[i] \in {"running", "sleeping"} =>
        /\ attempt[i] < config.max_retry_no
        /\ retry_delay[i] = config.retry_delay * Pow2(attempt[i])

\* C32: the retry state of an address does not depend on the other tasks:
\* whatever they retried and doubled, the first wait of each address is the
\* configured retry_delay, later waits double its own, and the task gives up
\* exactly when its own max_retry_no attempts have raised.
C32_RetryStateIsPerAddress ==
    [][(probe.state = "none") =>
          \A i \in Tasks :
              /\ OwnRetryState(i)'
              /\ (tstate[i] = "queued" /\ tstate'[i] = "running") =>
                    /\ attempt'[i] = 0
                    /\ retry_delay'[i] = config.retry_delay
              /\ (tstate[i] = "sleeping" /\ tstate'[i] = "running") =>
                    attempt[i] + 1 < config.max_retry_no
              /\ (tstate[i] = "sleeping" /\ tstate'[i] = "done") =>
                    attempt[i] + 1 = config.max_retry_no]_vars

C32_Witness ==
    /\ probe.state = "none"
    /\ records = 2
    /\ config.max_retry_no = 2
    /\ tstate[1] = "sleeping"
    /\ attempt[1] = 1
    /\ retry_delay[1] = 2 * config.retry_delay
    /\ tstate[2] = "sleeping"
    /\ attempt[2] = 0
    /\ retry_delay[2] = config.retry_delay

\* the chain invocation of a call returned a Resolved outcome: its last
\* provider answered with a match that formats
ChainResolved(call) ==
    /\ call.answers /= <<>>
    /\ call.answers[Len(call.answers)] = "match"

\* C33: a row returned by _geocode_input_row has is_encoded True with the
\* eleven location fields and the raw address exactly when the chain returned
\* a Resolved outcome; otherwise it is exactly {id, is_encoded: False}.
C33_RowHasAllFieldsOrNone ==
    (probe.state = "trace") =>
        \A k \in DOMAIN Calls :
            ~Calls[k].raised =>
                /\ tstate[1] = "done"
                /\ ChainResolved(Calls[k]) =>
                      /\ result[1]["is_encoded"] = "True"
                      /\ DOMAIN result[1] =
                            OutputFields \cup {"raw_address", "encoder", "id",
                                               "is_encoded"}
                      /\ result[1]["raw_address"] = Calls[k].queried
                      /\ result[1]["id"] = Ids[probe.record]
                /\ ~ChainResolved(Calls[k]) =>
                      result[1] = [id |-> Ids[probe.record], is_encoded |-> "False"]

C33_Witness ==
    /\ probe.state = "trace"
    /\ probe.record = 2
    /\ Len(Calls) = 1
    /\ Calls[1].answers = <<"error", "match">>
    /\ tstate[1] = "done"
    /\ result[1]["is_encoded"] = "True"
    /\ Cardinality(DOMAIN result[1]) = 15

C33_WitnessUnresolved ==
    /\ probe.state = "trace"
    /\ Len(Calls) = 1
    /\ Calls[1].answers = <<"none", "malformed", "none">>
    /\ tstate[1] = "done"
    /\ DOMAIN result[1] = {"id", "is_encoded"}

\* --- termination (SpecLive) ---
BoundedWork ==
    /\ probe.invocations <= config.max_retry_no
    /\ probe.provider_calls <= NumProviders

RunOver ==
    \/ pc = "raised"
    \/ /\ pc = "returned"
       /\ summary /= NoSummary

\* nothing but the attempt cap bounds a task: the run is over only when every
\* submitted task has ended by itself
OverOnlyWhenTasksEnded ==
    pc \in {"raised", "returned"} => \A i \in 1..submitted : tstate[i] = "done"

\* C34: when every provider call and flush ends in finite time, every task
\* ends after at most max_retry_no chain invocations of at most N provider
\* calls each, and the workflow eventually returns its summary or raises; the
\* run never ends while a submitted task has not.
C34_TasksAndRunTerminate ==
    /\ [](BoundedWork /\ OverOnlyWhenTasksEnded)
    /\ <>(RunOver /\ \A i \in 1..submitted : tstate[i] = "done")

C34_Witness ==
    /\ probe.state = "live"
    /\ pc = "returned"
    /\ revision = "new"
    /\ records = 2
    /\ config.max_retry_no = 2
    /\ probe.invocations = 2
    /\ probe.provider_calls = NumProviders
    /\ total_success = 2
    /\ summary /= NoSummary

\* C35: every run summary orchestrator.py returns has error_count 0,
\* error_ratio 0% and success_count equal to the number of input records,
\* whatever became of the addresses: total_failed is incremented only where
\* the exception is raised again.
C35_SummaryCountsNoError ==
    SummaryReturned =>
        /\ summary.error_count = "0"
        /\ summary.error_ratio = "0.00%"
        /\ summary.success_count = Str(records)
        /\ total_failed = 0

C35_Witness ==
    /\ SummaryReturned
    /\ records = 2
    /\ Unresolved /= {}
    /\ Exhausted /= {}
    /\ summary.success_count = "2"
    /\ summary.error_count = "0"

\* C36: every chunk appended during a run has the columns of the header the
\* first chunk of the run wrote, whatever rows the chunks hold.
C36_ChunksHaveTheHeaderColumns ==
    (probe.state = "none" /\ file /= <<>>) =>
        /\ "header" \in DOMAIN file[1]
        /\ \A k \in DOMAIN FlushedRows :
              DOMAIN FlushedRows[k].row = file[1].header

\* C37: the input is consumed eagerly: no outcome is collected and no chunk
\* is flushed before a task has been submitted for every record.
C37_EverythingSubmittedBeforeCollecting ==
    (/\ probe.state = "none"
     /\ \/ collected /= {}
        \/ output /= <<>>
        \/ flushes /= <<>>
        \/ file /= <<>>
        \/ total_success > 0
        \/ pc = "collect") => submitted = records

C37_Witness ==
    /\ probe.state = "none"
    /\ records = 2
    /\ submitted = 2
    /\ collected = {1}
    /\ Len(flushes) = 1
    /\ tstate[2] \in {"queued", "running", "sleeping"}

\* --- the configuration (SpecConfig) ---
\* the texts that denote an integer greater than 0
PositiveIntegerTexts == {<<"1">>, <<"2">>, <<"+", "3">>}

SettingIsValid(variable) ==
    ~probe.env[variable].set \/ probe.env[variable].text \in PositiveIntegerTexts

\* C38: constructing InputDataProcessorConfig raises ValueError when one of
\* max_workers, chunksize, retry_delay, max_retry_no is not an integer greater
\* than 0, and otherwise gives a configuration with max_retry_no >= 1,
\* chunksize >= 1, max_workers >= 1 and retry_delay >= 1.
C38_ConfigIsPositiveOrRaises ==
    (probe.state = "constructed") =>
        IF \A variable \in Range(Settings) : SettingIsValid(variable)
        THEN /\ probe.outcome.raised = ""
             /\ probe.outcome.max_retry_no >= 1
             /\ probe.outcome.chunksize >= 1
             /\ probe.outcome.max_workers >= 1
             /\ probe.outcome.retry_delay >= 1
        ELSE probe.outcome = [raised |-> "ValueError"]

C38_Witness ==
    /\ probe.state = "constructed"
    /\ probe.env["MAX_RETRY_NO"] = [set |-> TRUE, text |-> <<"0">>]
    /\ \A variable \in Range(Settings) \ {"MAX_RETRY_NO"} : SettingIsValid(variable)
    /\ probe.outcome.raised = "ValueError"

C38_WitnessValid ==
    /\ probe.state = "constructed"
    /\ probe.env["MAX_RETRY_NO"] = [set |-> TRUE, text |-> <<"+", "3">>]
    /\ ~probe.env["MAX_WORKERS"].set
    /\ probe.cpu_count = 1
    /\ probe.outcome.raised = ""
    /\ probe.outcome.max_retry_no = 3
    /\ probe.outcome.max_workers = 1

====
